---- MODULE Spec2Model ----
(***************************************************************************)
(* Model of api/index.py: the two /api/download entry points (GET with a   *)
(* query parameter, POST with a JSON object), the validation of the URL,   *)
(* the single outbound fetch to the upstream downloader and the regular    *)
(* expression extraction over the upstream body.                           *)
(*                                                                         *)
(* Texts are sequences of lexemes.  A URL is a sequence of characters.  An *)
(* upstream body is a sequence of lexemes chosen so that every literal of  *)
(* the four patterns ("<a", "<img", "href=", "src=", the double quote,     *)
(* ">", ".mp4", ".jpg", "data:image/jpg;base64,") is exactly one lexeme    *)
(* and occurs inside no other lexeme: a character class [^>] or [^"] is    *)
(* then "any lexeme but that one" and the patterns are matched as Python's *)
(* re.search matches them (leftmost start, greedy repetition).             *)
(*                                                                         *)
(* A request is modelled from the moment the framework calls the handler:  *)
(* GET carries a string, POST carries a JSON object whose 'url' member may *)
(* be absent, null, a string, a number or a list.  One GET and one POST    *)
(* request carry the same value and run concurrently; the upstream service *)
(* answers every fetch of that URL the same way, and its answer is chosen  *)
(* when the first fetch is issued.                                         *)
(***************************************************************************)
EXTENDS Integers, Sequences, FiniteSets, TLC

VARIABLES input, upstream, req

vars == <<input, upstream, req>>

\* ------------------------------------------------------------------ bounds
MaxUrlLen == 2
MaxTags == 2
MaxTagsX == 3

\* ------------------------------------------------------------- sequences
Range(s) == {s[i] : i \in 1..Len(s)}

RECURSIVE Flatten(_)
Flatten(ss) == IF ss = <<>> THEN <<>> ELSE Head(ss) \o Flatten(Tail(ss))

RECURSIVE SeqsUpTo(_, _)
SeqsUpTo(S, n) ==
    IF n = 0 THEN {<<>>}
    ELSE LET shorter == SeqsUpTo(S, n - 1)
         IN  shorter \cup {Append(s, x) : s \in shorter, x \in S}

\* the element of a one-element set
TheOne(S) == CHOOSE x \in S : TRUE

Min(S) == CHOOSE x \in S : \A y \in S : x <= y
Max(S) == CHOOSE x \in S : \A y \in S : x >= y

\* `needle in hay` on character sequences
Contains(hay, needle) ==
    \E k \in 1..(Len(hay) - Len(needle) + 1) :
        \A j \in 1..Len(needle) : hay[k + j - 1] = needle[j]

\* --------------------------------------------------------- URL characters
Surrogate == "U+D800"
Whitespace == {" "}

InstagramCom == <<"i","n","s","t","a","g","r","a","m",".","c","o","m">>
InstagrAm == <<"i","n","s","t","a","g","r",".","a","m">>

\* the pieces request URLs are built from
UrlPieces ==
    { <<" ">>, InstagramCom, InstagrAm, <<"/","p">>, <<Surrogate>> }

UrlStrings == {Flatten(ps) : ps \in SeqsUpTo(UrlPieces, MaxUrlLen)}

\* JSON values of the 'url' member of a POST body; a GET carries a "str"
StrVal(cs) == [type |-> "str", chars |-> cs, num |-> 0]
AbsentVal == [type |-> "absent", chars |-> <<>>, num |-> 0]
OtherVals ==
    { AbsentVal, [type |-> "null", chars |-> <<>>, num |-> 0],
      [type |-> "number", chars |-> <<>>, num |-> 0],
      [type |-> "number", chars |-> <<>>, num |-> 7],
      [type |-> "list", chars |-> <<>>, num |-> 0],
      [type |-> "list", chars |-> <<>>, num |-> 1] }

Inputs == {StrVal(cs) : cs \in UrlStrings} \cup OtherVals

\* Python truthiness of the value (`not url`)
Truthy(v) ==
    CASE v.type = "str" -> v.chars # <<>>
      [] v.type = "number" -> v.num # 0
      [] v.type = "list" -> v.num # 0
      [] OTHER -> FALSE

\* url.strip() == ""
StripIsEmpty(cs) == \A i \in 1..Len(cs) : cs[i] \in Whitespace

\* "instagram.com" in url or "instagr.am" in url
HasInstagramHost(cs) == Contains(cs, InstagramCom) \/ Contains(cs, InstagrAm)

\* urllib.parse.quote(url, safe=''): letters, digits and "_.-~" stay, every
\* other character is percent-encoded; a lone surrogate cannot be encoded
QuoteFails(cs) == Surrogate \in Range(cs)
QuoteChar(c) ==
    CASE c = " " -> "%20"
      [] c = "/" -> "%2F"
      [] OTHER -> c
Quote(cs) == [i \in 1..Len(cs) |-> QuoteChar(cs[i])]

TargetPrefix == "https://snapdownloader.com/tools/instagram-reels-downloader/download?url="
TargetUrl(cs) == <<TargetPrefix>> \o Quote(cs)

\* ------------------------------------------------------ upstream body text
DQ == "\""
SQ == "'"
GT == ">"
B64Prefix == "data:image/jpg;base64,"

\* a tag of the upstream page: <name attr=q val q>
Tag(name, attr, q, val) == [name |-> name, attr |-> attr, q |-> q, val |-> val]

NameLexemes(name) ==
    CASE name = "a" -> <<"<a">>
      [] name = "area" -> <<"<a", "rea">>
      [] name = "img" -> <<"<img">>
      [] OTHER -> <<"<video">>

AttrLexemes(attr) ==
    CASE attr = "href" -> <<"href=">>
      [] attr = "data-href" -> <<"data-", "href=">>
      [] attr = "src" -> <<"src=">>
      [] OTHER -> <<"data-", "src=">>

Render(t) ==
    NameLexemes(t.name) \o <<" ">> \o AttrLexemes(t.attr)
        \o <<t.q>> \o t.val \o <<t.q>> \o <<GT>>

BodyText(tags) == Flatten([i \in 1..Len(tags) |-> Render(tags[i])])

\* tags every specification draws bodies from
CoreTags ==
    { Tag("a", "href", DQ, <<"v", "&amp;", ".mp4", "?s">>),
      Tag("a", "href", DQ, <<"t", "&amp;", ".jpg">>),
      Tag("img", "src", DQ, <<B64Prefix, "AA", "&amp;">>) }

\* the further tags of the extraction specification
MoreTags ==
    { Tag("video", "src", DQ, <<"n", ".mp4">>),
      Tag("a", "href", DQ, <<"w", ".mp4">>),
      Tag("area", "href", DQ, <<"z", ".mp4">>),
      Tag("a", "data-href", DQ, <<"x", ".mp4">>),
      Tag("a", "href", DQ, <<".mp4">>),
      Tag("a", "href", SQ, <<"q", ".mp4">>),
      Tag("area", "href", DQ, <<"y", ".jpg">>),
      Tag("img", "src", DQ, <<"i", "&quot;", ".jpg">>),
      Tag("img", "data-src", DQ, <<"d", ".jpg">>),
      Tag("img", "data-src", DQ, <<B64Prefix, "BB">>),
      Tag("img", "src", DQ, <<B64Prefix>>) }

AllTags == CoreTags \cup MoreTags

\* what the upstream service does with the one request it gets
\* (a response holds the tags of its page and response.text, their rendering)
Failure(kind) == [kind |-> kind, code |-> 0, tags |-> <<>>, text |-> <<>>]
Answer(code, tags) ==
    [kind |-> "response", code |-> code, tags |-> tags, text |-> BodyText(tags)]
NoUpstream == Failure("unset")
StatusCodes == {200, 300, 404, 503}

Upstreams ==
    {Failure("timeout"), Failure("transport")}
        \cup {Answer(c, ts) : c \in StatusCodes, ts \in SeqsUpTo(CoreTags, MaxTags)}

UpstreamsX == {Answer(200, ts) : ts \in SeqsUpTo(AllTags, MaxTagsX)}

\* Response.raise_for_status(): raises for 4xx and 5xx only
RaisesForStatus(code) == 400 <= code /\ code < 600

\* ------------------------------------------------------ pattern searches
\* first double quote at or after position from, 0 if there is none
NextQuote(text, from) ==
    LET qs == {j \in from..Len(text) : text[j] = DQ}
    IN  IF qs = {} THEN 0 ELSE Min(qs)

\* re.search(r'<OPEN[^>]+ATTR"([^"]+EXT[^"]*)"[^>]*>', text): a match that
\* starts at position i succeeds with ATTR at position p
QuotedAt(text, i, p, open, attr, ext) ==
    /\ text[i] = open
    /\ i + 2 <= p /\ p < Len(text)
    /\ text[p] = attr
    /\ text[p + 1] = DQ
    /\ \A k \in (i + 1)..(p - 1) : text[k] # GT
    /\ NextQuote(text, p + 2) # 0
    /\ \E k \in (p + 3)..(NextQuote(text, p + 2) - 1) : text[k] = ext
    /\ \E j \in (NextQuote(text, p + 2) + 1)..Len(text) : text[j] = GT

\* re.search(r'<img[^>]+src="data:image\/jpg;base64,([^"]+)"', text): a
\* match that starts at position i succeeds with src= at position p
Base64At(text, i, p) ==
    /\ text[i] = "<img"
    /\ i + 2 <= p /\ p + 2 <= Len(text)
    /\ text[p] = "src="
    /\ text[p + 1] = DQ
    /\ text[p + 2] = B64Prefix
    /\ \A k \in (i + 1)..(p - 1) : text[k] # GT
    /\ NextQuote(text, p + 3) > p + 3

\* the match re.search returns among hits, the pairs <<i, p>> of a start and
\* an attribute position that match, as the set of its attribute position:
\* the leftmost start, and from it the last attribute that works, because
\* [^>]+ is greedy
\* variant: the rightmost start instead of the leftmost
FirstMatch_Rightmost(hits) ==
    {h[2] : h \in {h \in hits :
                      \A g \in hits : h[1] > g[1] \/ (h[1] = g[1] /\ h[2] >= g[2])}}

FirstMatch(hits) ==
    {h[2] : h \in {h \in hits :
                      \A g \in hits : h[1] < g[1] \/ (h[1] = g[1] /\ h[2] >= g[2])}}

\* the positions at which a lexeme stands
Positions(text, lexeme) == {i \in 1..Len(text) : text[i] = lexeme}

\* group(1) of the match as <<capture>>, or <<>> when nothing matches
Group1(text, ps, skip) ==
    LET groups == {<<SubSeq(text, p + skip, NextQuote(text, p + skip) - 1)>> : p \in ps}
    IN  IF groups = {} THEN <<>> ELSE TheOne(groups)

SearchQuoted(text, open, attr, ext) ==
    Group1(text,
           FirstMatch({h \in Positions(text, open) \X Positions(text, attr) :
                          QuotedAt(text, h[1], h[2], open, attr, ext)}),
           2)

SearchBase64(text) ==
    Group1(text,
           FirstMatch({h \in Positions(text, "<img") \X Positions(text, "src=") :
                          Base64At(text, h[1], h[2])}),
           3)

video_pattern(text) == SearchQuoted(text, "<a", "href=", ".mp4")
thumb_pattern(text) == SearchQuoted(text, "<a", "href=", ".jpg")
alt_thumb_pattern(text) == SearchQuoted(text, "<img", "src=", ".jpg")
thumb_base64_pattern(text) == SearchBase64(text)

\* html.unescape: character references become the characters they name
\* variant: html.unescape left out
UnescapeLexeme_Identity(x) == x

UnescapeLexeme(x) ==
    CASE x = "&amp;" -> "&"
      [] x = "&quot;" -> DQ
      [] OTHER -> x
Unescape(s) == TheOne({[i \in 1..Len(v) |-> UnescapeLexeme(v[i])] : v \in {s}})

\* ------------------------------------------------------------- responses
Methods == {"GET", "POST"}

Resp(code, kind, status, message, data, detail) ==
    [code |-> code, kind |-> kind, status |-> status, message |-> message,
     data |-> data, detail |-> detail]

NoResp == Resp(0, "none", "", "", <<>>, <<>>)

\* raise HTTPException(status_code=code, detail=detail)
HTTPException(code, detail) == Resp(code, "HTTPException", "", "", <<>>, detail)

\* an exception that leaves the handler: the framework answers 500 with the
\* plain text "Internal Server Error", which carries no detail
Unhandled == Resp(500, "unhandled", "", "Internal Server Error", <<>>, <<>>)

\* str(e) of the exceptions the handler can meet
AttributeErrorText(v) ==
    IF v.type = "number" THEN "'int' object has no attribute 'strip'"
    ELSE "'list' object has no attribute 'strip'"
EncodeErrorText == "'utf-8' codec can't encode character: surrogates not allowed"
HTTPErrorText(code) ==
    <<ToString(code), IF code < 500 THEN " Client Error" ELSE " Server Error">>

\* one request: where its handler stands, the outbound fetches it has issued
\* and their target, the pattern searches it has run, the failure it met
NewRequest ==
    [pc |-> "idle", fetches |-> 0, target |-> <<>>, searches |-> {},
     failure |-> "none", resp |-> NoResp]

\* variant: a timeout is retried once before it is reported
Finish_RetryOnTimeout(r, failure, resp) ==
    IF failure = "UpstreamTimeout" /\ r.fetches < 2
    THEN r
    ELSE [r EXCEPT !.pc = "done", !.failure = failure, !.resp = resp]

\* the handler returns or raises: the request has its response
Finish(r, failure, resp) ==
    [r EXCEPT !.pc = "done", !.failure = failure, !.resp = resp]

\* variant: the host test of lines 56-58 left out
Validate_NoHostCheck(r, url) ==
    IF url.type # "str" /\ Truthy(url)
    THEN Finish(r, "AttributeError", Unhandled)
    ELSE IF ~Truthy(url) \/ StripIsEmpty(url.chars)
    THEN Finish(r, "InvalidInput", HTTPException(400, <<"Missing Instagram URL">>))
    ELSE [r EXCEPT !.pc = "fetch"]

\* lines 52-58 of download_instagram_content, run on the value it is called
\* with.  They stand before the try: url.strip() on a value that is no
\* string raises AttributeError, which no except clause catches.
Validate(r, url) ==
    IF url.type # "str" /\ Truthy(url)
    THEN Finish(r, "AttributeError", Unhandled)
    ELSE IF ~Truthy(url) \/ StripIsEmpty(url.chars)
    THEN Finish(r, "InvalidInput", HTTPException(400, <<"Missing Instagram URL">>))
    ELSE IF ~HasInstagramHost(url.chars)
    THEN Finish(r, "InvalidInput", HTTPException(400, <<"Invalid Instagram URL">>))
    ELSE [r EXCEPT !.pc = "fetch"]

\* requests.exceptions: Timeout, ConnectionError and HTTPError are
\* RequestExceptions
IsRequestException(exc) == exc \in {"Timeout", "ConnectionError", "HTTPError"}

\* variant: the RequestException clause placed before the Timeout clause
Except_RequestExceptionFirst(r, exc, msg) ==
    IF IsRequestException(exc)
    THEN Finish(r, "UpstreamError",
             HTTPException(500, <<"Failed to fetch data: ">> \o msg))
    ELSE Finish(r, exc,
             HTTPException(500, <<"An unexpected error occurred: ">> \o msg))

\* lines 125-130: the except clauses of the try, in their order
Except(r, exc, msg) ==
    IF exc = "Timeout"
    THEN Finish(r, "UpstreamTimeout",
             HTTPException(408,
                 <<"Request timeout - the external service took too long to respond">>))
    ELSE IF IsRequestException(exc)
    THEN Finish(r, "UpstreamError",
             HTTPException(500, <<"Failed to fetch data: ">> \o msg))
    ELSE Finish(r, exc,
             HTTPException(500, <<"An unexpected error occurred: ">> \o msg))

\* lines 75-76: what requests.get and raise_for_status raise on the answer
Raised(up) ==
    CASE up.kind = "timeout" -> "Timeout"
      [] up.kind = "transport" -> "ConnectionError"
      [] up.kind = "response" /\ RaisesForStatus(up.code) -> "HTTPError"
      [] OTHER -> "none"

RaisedText(up) ==
    CASE up.kind = "timeout" -> <<"read timed out">>
      [] up.kind = "transport" -> <<"connection failed">>
      [] OTHER -> HTTPErrorText(up.code)

\* variant: a non-empty default instead of ""
VideoUrl_Placeholder(video_match) ==
    IF video_match # <<>> THEN Unescape(video_match[1]) ELSE <<"#">>

\* line 81
VideoUrl(video_match) ==
    IF video_match # <<>> THEN Unescape(video_match[1]) ELSE <<>>

\* variant: the img pattern tried before the anchor pattern
ThumbUrl_ImgFirst(text, thumb_match) ==
    LET alt_thumb_match == alt_thumb_pattern(text)
    IN  IF alt_thumb_match # <<>> THEN Unescape(alt_thumb_match[1])
        ELSE IF thumb_match # <<>> THEN Unescape(thumb_match[1])
        ELSE <<>>

\* lines 92-98: the anchor match, and the img search only without it
ThumbUrl(text, thumb_match) ==
    LET alt_thumb_match == alt_thumb_pattern(text)
    IN  IF thumb_match # <<>> THEN Unescape(thumb_match[1])
        ELSE IF alt_thumb_match # <<>> THEN Unescape(alt_thumb_match[1])
        ELSE <<>>

\* line 95: `if not thumb_url` (a match is never empty)
Searched(thumb_match) ==
    {"video", "thumb_base64", "thumb"}
        \cup (IF thumb_match = <<>> THEN {"alt_thumb"} ELSE {})

\* variant: the payload unescaped like the two URLs
ThumbBase64_Unescaped(thumb_base64_match) ==
    IF thumb_base64_match # <<>>
    THEN <<(<<B64Prefix>> \o Unescape(thumb_base64_match[1]))>>
    ELSE <<>>

\* lines 87 and 108: None, or the data URI around the payload as matched
ThumbBase64(thumb_base64_match) ==
    IF thumb_base64_match # <<>>
    THEN <<(<<B64Prefix>> \o thumb_base64_match[1])>>
    ELSE <<>>

\* variant: encoded_url echoed instead of url
ResultData_EchoEncoded(video_url, thumb_url, thumb_base64, url) ==
    [video_url |-> video_url, thumbnail_url |-> thumb_url,
     thumbnail_base64 |-> thumb_base64, original_url |-> Quote(url.chars)]

\* lines 105-110
ResultData(video_url, thumb_url, thumb_base64, url) ==
    [video_url |-> video_url, thumbnail_url |-> thumb_url,
     thumbnail_base64 |-> thumb_base64, original_url |-> url.chars]

\* lines 100-123: the JSON response
Respond(r, url, text, video_match, thumb_base64_match, thumb_match) ==
    [r EXCEPT
        !.pc = "done",
        !.searches = Searched(thumb_match),
        !.resp =
            IF VideoUrl(video_match) # <<>>
            THEN Resp(200, "JSONResponse", "success",
                      "Video extracted successfully",
                      <<ResultData(VideoUrl(video_match),
                                   ThumbUrl(text, thumb_match),
                                   ThumbBase64(thumb_base64_match), url)>>,
                      <<>>)
            ELSE Resp(404, "JSONResponse", "error",
                      "Unable to extract video from the provided URL",
                      <<>>, <<>>)]

\* lines 78-123: the three searches every extraction runs over
\* response.text, then the response
Extract(r, url, text) ==
    TheOne({Respond(r, url, text, video_match, thumb_base64_match, thumb_match) :
                video_match \in {video_pattern(text)},
                thumb_base64_match \in {thumb_base64_pattern(text)},
                thumb_match \in {thumb_pattern(text)}})

\* lines 62-76 and what follows them: the one requests.get, then either an
\* except clause or the extraction
AfterFetch(r, url, up) ==
    LET sent == [r EXCEPT !.fetches = @ + 1, !.target = TargetUrl(url.chars)]
    IN  IF Raised(up) # "none"
        THEN Except(sent, Raised(up), RaisedText(up))
        ELSE Extract(sent, url, up.text)

\* -------------------------------------------------------------- actions
Init ==
    /\ input \in Inputs
    /\ upstream = NoUpstream
    /\ req = [m \in Methods |-> NewRequest]

\* a query string decodes to a string without lone surrogates
GetCarries(v) == v.type = "str" /\ ~QuoteFails(v.chars)

\* GET /api/download?url=<input>: download_instagram_content up to the try
GetEntry ==
    /\ req["GET"].pc = "idle"
    /\ GetCarries(input)
    /\ req' = [req EXCEPT !["GET"] = Validate(@, input)]
    /\ UNCHANGED <<input, upstream>>

\* POST /api/download with {"url": <input>} (no member when absent):
\* download_instagram_content_post, and the validation of the function it calls
\* variant: POST also rejects a whitespace-only string itself
PostEntry_RejectsBlank ==
    /\ req["POST"].pc = "idle"
    /\ req' = [req EXCEPT !["POST"] =
                  IF ~Truthy(input) \/ (input.type = "str" /\ StripIsEmpty(input.chars))
                  THEN Finish(@, "InvalidInput",
                           HTTPException(400, <<"Missing 'url' field in request body">>))
                  ELSE Validate(@, input)]
    /\ UNCHANGED <<input, upstream>>

PostEntry ==
    /\ req["POST"].pc = "idle"
    /\ req' = [req EXCEPT !["POST"] =
                  IF ~Truthy(input)
                  THEN Finish(@, "InvalidInput",
                           HTTPException(400, <<"Missing 'url' field in request body">>))
                  ELSE Validate(@, input)]
    /\ UNCHANGED <<input, upstream>>

\* the try block of download_instagram_content for the request of method m;
\* the upstream service answers every fetch of the URL the same way
Fetch(m, U) ==
    /\ req[m].pc = "fetch"
    /\ IF QuoteFails(input.chars)
       THEN /\ req' = [req EXCEPT ![m] =
                          Except(@, "UnicodeEncodeError", <<EncodeErrorText>>)]
            /\ UNCHANGED upstream
       ELSE \E up \in U :
                /\ upstream \in {NoUpstream, up}
                /\ upstream' = up
                /\ req' = [req EXCEPT ![m] = AfterFetch(@, input, up)]
    /\ UNCHANGED input

GetFetch == Fetch("GET", Upstreams)
PostFetch == Fetch("POST", Upstreams)

Next == GetEntry \/ PostEntry \/ GetFetch \/ PostFetch

Spec == Init /\ [][Next]_vars

\* every started handler runs to its response
FairSpec == Spec /\ WF_vars(Next)

\* the extraction alone: GET requests for one URL, bodies of up to MaxTagsX
\* tags drawn from all the tags
InitExtract ==
    /\ input = StrVal(<<" ">> \o InstagramCom \o <<"/", "p">>)
    /\ upstream = NoUpstream
    /\ req = [m \in Methods |-> NewRequest]

GetFetchExtract == Fetch("GET", UpstreamsX)

NextExtract == GetEntry \/ GetFetchExtract

SpecExtract == InitExtract /\ [][NextExtract]_vars

\* ======================================================================
\* Properties
\* ======================================================================
Done(m) == req[m].pc = "done"
Response(m) == req[m].resp
Data(m) == req[m].resp.data[1]
IsUrlString == input.type = "str"

\* the request fetched and the upstream answered with an HTTP status
Answered(m) == Done(m) /\ req[m].fetches = 1 /\ upstream.kind = "response"
Is2xx(code) == 200 <= code /\ code <= 299
Text == upstream.text

DataFields == {"video_url", "thumbnail_url", "thumbnail_base64", "original_url"}

\* the first index in a set of indexes of tags, 0 when there is none
First(S) == IF S = {} THEN 0 ELSE Min(S)

\* ---------------------------------------------------------------- C1
\* C1: a URL string that contains neither "instagram.com" nor "instagr.am"
\* (the empty and the whitespace-only string included) ends in InvalidInput,
\* HTTP 400, and no fetch to the upstream service is ever issued for it.
C1_InvalidUrlRejectedWithoutFetch ==
    (IsUrlString /\ ~HasInstagramHost(input.chars)) =>
        /\ upstream = NoUpstream
        /\ \A m \in Methods :
              /\ req[m].pc # "fetch"
              /\ req[m].fetches = 0
              /\ req[m].target = <<>>
              /\ Done(m) =>
                    /\ Response(m).code = 400
                    /\ Response(m).kind = "HTTPException"
                    /\ req[m].failure = "InvalidInput"

C1_Witness ==
    /\ IsUrlString
    /\ ~HasInstagramHost(input.chars)
    /\ ~StripIsEmpty(input.chars)
    /\ \A m \in Methods : Done(m) /\ Response(m).code = 400

\* ---------------------------------------------------------------- C2
\* C2 as stated: for every URL value both entry points end in the identical
\* response, the empty string included.
C2_Original_SameResponse ==
    (Done("GET") /\ Done("POST")) => Response("GET") = Response("POST")

\* C2 amended: for every non-empty URL string both entry points end in the
\* identical response (status and payload); for the empty string both end in
\* HTTP 400 but with different details, "Missing Instagram URL" for GET and
\* "Missing 'url' field in request body" for POST.
C2_SameResponseUnlessEmpty ==
    (Done("GET") /\ Done("POST")) =>
        IF input.chars # <<>>
        THEN Response("GET") = Response("POST")
        ELSE /\ Response("GET") = HTTPException(400, <<"Missing Instagram URL">>)
             /\ Response("POST") =
                    HTTPException(400, <<"Missing 'url' field in request body">>)

C2_Witness ==
    /\ Done("GET") /\ Done("POST")
    /\ Response("GET").code = 200
    /\ Response("POST") = Response("GET")

\* ---------------------------------------------------------------- C3
\* C3: when the upstream answers 2xx and the video pattern does not match
\* the body, the handler returns a JSON response 404 with status "error", a
\* message and data null, whatever the thumbnail patterns match; it raises
\* nothing and returns neither 200 nor 500.
C3_NoVideoIs404 ==
    \A m \in Methods :
        (Answered(m) /\ Is2xx(upstream.code) /\ video_pattern(Text) = <<>>) =>
            /\ req[m].failure = "none"
            /\ Response(m).kind = "JSONResponse"
            /\ Response(m).code = 404
            /\ Response(m).status = "error"
            /\ Response(m).message # ""
            /\ Response(m).data = <<>>

C3_Witness ==
    /\ Answered("GET") /\ Is2xx(upstream.code)
    /\ video_pattern(Text) = <<>>
    /\ thumb_pattern(Text) # <<>>
    /\ thumb_base64_pattern(Text) # <<>>
    /\ Response("GET").code = 404

\* ---------------------------------------------------------------- C4
NoExtraction(m) ==
    req[m].searches = {} /\ Response(m).kind = "HTTPException"

\* C4 as stated: a timeout yields 408; a transport failure or a non-2xx
\* upstream status yields 500; no extraction and no 200/404 in these cases.
C4_Original_Non2xxIs500 ==
    \A m \in Methods :
        (Done(m) /\ req[m].fetches = 1) =>
            /\ upstream.kind = "timeout" =>
                  Response(m).code = 408 /\ NoExtraction(m)
            /\ (\/ upstream.kind = "transport"
                \/ upstream.kind = "response" /\ ~Is2xx(upstream.code)) =>
                  Response(m).code = 500 /\ NoExtraction(m)

\* C4 amended: a timeout yields 408 (never 500); a transport failure or a
\* 4xx/5xx upstream status yields 500; no extraction and no 200/404 in these
\* cases.  A final status below 400 that is not 2xx (a 3xx that is not
\* followed) is not a failure: the body is searched and 200 or 404 returned.
C4_FailureStatuses ==
    \A m \in Methods :
        (Done(m) /\ req[m].fetches = 1) =>
            /\ upstream.kind = "timeout" =>
                  /\ Response(m).code = 408
                  /\ req[m].failure = "UpstreamTimeout"
                  /\ NoExtraction(m)
            /\ (\/ upstream.kind = "transport"
                \/ upstream.kind = "response" /\ upstream.code >= 400) =>
                  /\ Response(m).code = 500
                  /\ req[m].failure = "UpstreamError"
                  /\ NoExtraction(m)
            /\ (upstream.kind = "response" /\ upstream.code < 400) =>
                  /\ Response(m).code \in {200, 404}
                  /\ req[m].searches # {}

C4_Witness ==
    /\ Done("POST") /\ req["POST"].fetches = 1
    /\ upstream.kind = "timeout"
    /\ Response("POST").code = 408

\* ---------------------------------------------------------------- C5
HandledKinds == {"none", "InvalidInput", "UpstreamTimeout", "UpstreamError"}

\* C5: a failure met while handling a request that is none of InvalidInput,
\* UpstreamTimeout and UpstreamError ends in HTTP 500 whose detail carries
\* the exception's message.
C5_UnexpectedFailureCarriesMessage ==
    \A m \in Methods :
        (Done(m) /\ req[m].failure \notin HandledKinds) =>
            /\ Response(m).code = 500
            /\ Response(m).detail # <<>>
            /\ Response(m).detail[Len(Response(m).detail)] \in
                   {EncodeErrorText, AttributeErrorText(input)}

\* ---------------------------------------------------------------- C6
SuccessShape(m) ==
    /\ Response(m).kind = "JSONResponse"
    /\ Response(m).code = 200
    /\ Response(m).status = "success"
    /\ Len(Response(m).data) = 1
    /\ DOMAIN Data(m) = DataFields
    /\ Data(m).video_url # <<>>
    /\ Data(m).original_url = input.chars

\* C6 as stated: 200 with the four fields exactly when the video pattern
\* matches in a 2xx upstream body.
C6_Original_200IffVideoIn2xx ==
    \A m \in Methods :
        Done(m) =>
            LET found == /\ Answered(m) /\ Is2xx(upstream.code)
                         /\ video_pattern(Text) # <<>>
            IN  /\ found => SuccessShape(m)
                /\ Response(m).code = 200 => found

\* C6 amended: whenever the video pattern matches in the body of an upstream
\* response whose status is below 400 (2xx, or a 3xx that is not followed),
\* the handler returns 200, status "success" and a data record of exactly the
\* fields video_url, thumbnail_url, thumbnail_base64 and original_url, with
\* video_url non-empty and original_url the input exactly as received; a 200
\* is returned in no other situation.
C6_200IffVideoFound ==
    \A m \in Methods :
        Done(m) =>
            LET found == /\ Answered(m) /\ upstream.code < 400
                         /\ video_pattern(Text) # <<>>
            IN  /\ found => SuccessShape(m)
                /\ Response(m).code = 200 => found

C6_Witness ==
    /\ Done("GET") /\ SuccessShape("GET")
    /\ input.chars[1] = " "
    /\ Is2xx(upstream.code)

\* ------------------------------------------------------- C7, C8 and C9
\* the request searched the body the upstream answered with
Extracted(m) == Answered(m) /\ req[m].searches # {}
Succeeded(m) == Extracted(m) /\ Response(m).code = 200

\* an attribute value with its character references read as HTML reads them
Decoded(val) ==
    [k \in 1..Len(val) |->
        IF val[k] = "&amp;" THEN "&" ELSE IF val[k] = "&quot;" THEN DQ ELSE val[k]]

\* the value holds ext after at least one other lexeme
ExtAfterFirst(val, ext) == \E k \in 2..Len(val) : val[k] = ext

\* a tag as the words of the spec describe it: this element, this attribute
IsElement(t, name, attr) == t.name = name /\ t.attr = attr /\ t.q = DQ
Mp4Anchor(t) == IsElement(t, "a", "href") /\ ExtAfterFirst(t.val, ".mp4")
JpgAnchor(t) == IsElement(t, "a", "href") /\ ExtAfterFirst(t.val, ".jpg")
JpgImg(t) == IsElement(t, "img", "src") /\ ExtAfterFirst(t.val, ".jpg")
Base64Img(t) ==
    IsElement(t, "img", "src") /\ Len(t.val) >= 2 /\ t.val[1] = B64Prefix

\* a tag as the patterns accept it: the tag name begins with the pattern's
\* name, the attribute name ends with the pattern's, the value is in double
\* quotes
Accepts(t, open, attr) ==
    /\ Head(NameLexemes(t.name)) = open
    /\ AttrLexemes(t.attr)[Len(AttrLexemes(t.attr))] = attr
    /\ t.q = DQ
Mp4Match(t) == Accepts(t, "<a", "href=") /\ ExtAfterFirst(t.val, ".mp4")
JpgAnchorMatch(t) == Accepts(t, "<a", "href=") /\ ExtAfterFirst(t.val, ".jpg")
JpgImgMatch(t) == Accepts(t, "<img", "src=") /\ ExtAfterFirst(t.val, ".jpg")
Base64Match(t) ==
    Accepts(t, "<img", "src=") /\ Len(t.val) >= 2 /\ t.val[1] = B64Prefix

\* C7 as stated: thumbnail_url is the unescaped href of the first .jpg
\* anchor, else the unescaped src of the first .jpg img tag, else the empty
\* string; the img search runs only when the anchor search found nothing.
C7_Original_ThumbnailFromAnchorThenImg ==
    \A m \in Methods :
        LET tags == upstream.tags
            a == First({n \in 1..Len(upstream.tags) : JpgAnchor(upstream.tags[n])})
            i == First({n \in 1..Len(upstream.tags) : JpgImg(upstream.tags[n])})
        IN  /\ Extracted(m) => (("alt_thumb" \in req[m].searches) <=> (a = 0))
            /\ Succeeded(m) =>
                  Data(m).thumbnail_url =
                      IF a # 0 THEN Decoded(tags[a].val)
                      ELSE IF i # 0 THEN Decoded(tags[i].val)
                      ELSE <<>>

\* C7 amended: thumbnail_url is the unescaped value of the first match of
\* the anchor pattern <a[^>]+href="([^"]+\.jpg[^"]*)"[^>]*> if there is one,
\* otherwise that of the first match of the img pattern
\* <img[^>]+src="([^"]+\.jpg[^"]*)"[^>]*> if there is one, otherwise the
\* empty string (never null).  The anchor pattern accepts every tag whose
\* name begins with "a" (<area> as well as <a>) and every attribute whose
\* name ends in "href"; the img pattern every attribute whose name ends in
\* "src" (data-src); both want a character before ".jpg".  The img search
\* runs only when the anchor search found nothing.
C7_ThumbnailFromPatterns ==
    \A m \in Methods :
        LET tags == upstream.tags
            a == First({n \in 1..Len(upstream.tags) : JpgAnchorMatch(upstream.tags[n])})
            i == First({n \in 1..Len(upstream.tags) : JpgImgMatch(upstream.tags[n])})
        IN  /\ Extracted(m) => (("alt_thumb" \in req[m].searches) <=> (a = 0))
            /\ Succeeded(m) =>
                  Data(m).thumbnail_url =
                      IF a # 0 THEN Decoded(tags[a].val)
                      ELSE IF i # 0 THEN Decoded(tags[i].val)
                      ELSE <<>>

\* an img before an anchor: the anchor still wins, unescaped
C7_Witness ==
    LET tags == upstream.tags
        a == First({n \in 1..Len(upstream.tags) : JpgAnchor(upstream.tags[n])})
        i == First({n \in 1..Len(upstream.tags) : JpgImg(upstream.tags[n])})
    IN  /\ Succeeded("GET")
        /\ i # 0 /\ a > i
        /\ Data("GET").thumbnail_url = Decoded(tags[a].val)
        /\ Decoded(tags[a].val) # tags[a].val
        /\ "alt_thumb" \notin req["GET"].searches

\* C8 as stated: video_url is the unescaped href of the first anchor whose
\* double-quoted href contains ".mp4"; it comes from an anchor's href only;
\* without such an anchor no video_url is found.
C8_Original_VideoFromAnchorOnly ==
    \A m \in Methods :
        Extracted(m) =>
            LET tags == upstream.tags
                k == First({n \in 1..Len(upstream.tags) : Mp4Anchor(upstream.tags[n])})
            IN  IF k # 0
                THEN /\ Response(m).code = 200
                     /\ Data(m).video_url = Decoded(tags[k].val)
                ELSE Response(m).code = 404

\* C8 amended: video_url is the unescaped value of the first match, in
\* document order, of <a[^>]+href="([^"]+\.mp4[^"]*)"[^>]*>; later matches
\* are ignored.  The pattern accepts every tag whose name begins with "a"
\* (<area> as well as <a>) and every double-quoted attribute whose name ends
\* in "href" (data-href), and wants a character before ".mp4" (href=".mp4"
\* does not match).  When nothing matches, video_url is not found.
C8_VideoFromPattern ==
    \A m \in Methods :
        Extracted(m) =>
            LET tags == upstream.tags
                k == First({n \in 1..Len(upstream.tags) : Mp4Match(upstream.tags[n])})
            IN  IF k # 0
                THEN /\ Response(m).code = 200
                     /\ Data(m).video_url = Decoded(tags[k].val)
                ELSE Response(m).code = 404

\* two anchors with different .mp4 hrefs: the first one is returned
C8_Witness ==
    LET tags == upstream.tags
    IN  /\ Succeeded("GET")
        /\ Len(tags) >= 2
        /\ Mp4Anchor(tags[1]) /\ Mp4Anchor(tags[2])
        /\ Decoded(tags[1].val) # tags[1].val
        /\ tags[2].val # tags[1].val
        /\ Data("GET").video_url = Decoded(tags[1].val)

\* C9 as stated: in a success response thumbnail_base64 is the data URI of
\* the first img tag whose src is a data:image/jpg;base64 URI, payload
\* verbatim, and null without such a tag, whatever thumbnail_url is.
C9_Original_Base64FromImgSrc ==
    \A m \in Methods :
        Succeeded(m) =>
            LET tags == upstream.tags
                k == First({n \in 1..Len(upstream.tags) : Base64Img(upstream.tags[n])})
            IN  Data(m).thumbnail_base64 =
                    IF k # 0 THEN <<tags[k].val>> ELSE <<>>

\* C9 amended: in a success response thumbnail_base64 is
\* "data:image/jpg;base64," followed by the verbatim payload of the first
\* match of <img[^>]+src="data:image\/jpg;base64,([^"]+)", and null when
\* nothing matches, whatever thumbnail_url is.  The pattern accepts every
\* attribute whose name ends in "src" (data-src) and wants a non-empty
\* payload (an img whose src is the bare prefix does not match).
C9_Base64FromPattern ==
    \A m \in Methods :
        Succeeded(m) =>
            LET tags == upstream.tags
                k == First({n \in 1..Len(upstream.tags) : Base64Match(upstream.tags[n])})
            IN  Data(m).thumbnail_base64 =
                    IF k # 0 THEN <<tags[k].val>> ELSE <<>>

\* a payload that unescaping would change, next to an anchor thumbnail
C9_Witness ==
    LET tags == upstream.tags
        k == First({n \in 1..Len(upstream.tags) : Base64Img(upstream.tags[n])})
    IN  /\ Succeeded("GET")
        /\ k # 0
        /\ Decoded(tags[k].val) # tags[k].val
        /\ Data("GET").thumbnail_base64 = <<tags[k].val>>
        /\ First({n \in 1..Len(upstream.tags) : JpgAnchor(upstream.tags[n])}) # 0
        /\ Data("GET").thumbnail_url # <<>>

\* ---------------------------------------------------------------- C10
FinalStatuses == {200, 400, 404, 408, 500}
Started(m) == m = "POST" \/ GetCarries(input)

\* C10: every request issues at most one outbound fetch and gets exactly one
\* response, which never changes once given; after a timeout, a transport
\* failure, an error status or a failed extraction nothing is fetched again;
\* and every request eventually ends in 200, 400, 404, 408 or 500.
C10_OneFetchOneResponse ==
    /\ [](\A m \in Methods :
            /\ req[m].fetches <= 1
            /\ Done(m) <=> Response(m) # NoResp
            /\ Done(m) => Response(m).code \in FinalStatuses)
    /\ [][\A m \in Methods : Done(m) => req'[m] = req[m]]_vars
    /\ <>(\A m \in Methods : Started(m) => Done(m))

C10_Witness ==
    /\ Done("GET") /\ Done("POST")
    /\ req["GET"].fetches = 1 /\ req["POST"].fetches = 1
    /\ req["GET"].failure = "UpstreamTimeout"

====
